---- MODULE Spec2Model ----
(***************************************************************************)
(* Model of timed_lru_caching.py: the TimedLRUCache engine (an OrderedDict  *)
(* of (value, time_added) items with LRU capacity eviction and lazy TTL     *)
(* expiry) and the _TimedLRUCacheWrapper memoizing adapter built on it.     *)
(*                                                                          *)
(* Python values are modelled as follows.                                   *)
(*   - None as a cached value / return value is the string "None".          *)
(*   - An Optional number (max_size, ttl, time_added) is a sequence:        *)
(*     <<>> is None and <<n>> is the number n.                              *)
(*   - The OrderedDict is a sequence of items [key, value, time_added],     *)
(*     index 1 being the first (least recently used) item.                  *)
(*   - time.time() is the variable now, advanced by Tick.                   *)
(***************************************************************************)
EXTENDS Integers, Sequences, FiniteSets, TLC

\* ---------------------------------------------------------------- bounds
\* the clock runs over 0..MaxTime; a ttl above MaxTime never expires an item
MaxTime == 1
\* the largest max_size an object is constructed with
MaxCap == 2
\* the adapter calls made between two clears
MaxCalls == 2

\* ---------------------------------------------------------------- domains
None == "None"
Keys == {"a", "b", "c"}
Values == {None, "v1"}
NoNumber == <<>>
OptTimes == {NoNumber} \cup {<<t>> : t \in 0..MaxTime}
\* max_size: optional positive int, ttl: optional positive float (seconds)
MaxSizes == {NoNumber} \cup {<<n>> : n \in 1..MaxCap}
Ttls == {NoNumber} \cup {<<n>> : n \in 1..MaxTime}

VARIABLES
    kind,       \* which object was constructed: "engine" or "adapter"
    cache,      \* TimedLRUCache._cache
    max_size,   \* TimedLRUCache._max_size
    ttl,        \* TimedLRUCache._ttl
    now,        \* time.time()
    hits,       \* _TimedLRUCacheWrapper._hits
    misses,     \* _TimedLRUCacheWrapper._misses
    last,       \* the operation that ran last: its arguments, its result and
                \* what the cache held when it started
    recency,    \* the present keys, ordered by their latest add or
                \* successful get (oldest first)
    log,        \* the adapter's calls since construction or the last clear,
                \* that clear included
    added,      \* for each present key, the timestamp its latest add gave it
    threads     \* the position of each thread that is inside a call of
                \* the adapter (no thread unless calls are made concurrently)

vars == <<kind, cache, max_size, ttl, now, hits, misses, last, recency, log,
          added, threads>>

\* ------------------------------------------------ Python truthiness
\* `if self._ttl and ...`, `if self._max_size and ...`: None and 0 are falsy.
Truthy(o) == o # NoNumber /\ o[1] # 0

\* ------------------------------------------------ OrderedDict operations
Contains(c, k) == \E i \in 1..Len(c) : c[i].key = k

IndexOf(c, k) == CHOOSE i \in 1..Len(c) : c[i].key = k

GetItem(c, k) == c[IndexOf(c, k)]

Pop(c, k) == SelectSeq(c, LAMBDA e : e.key # k)

\* a move_to_end that moves nothing
MoveToEnd_stay(c, k) == c

MoveToEnd(c, k) == Append(Pop(c, k), GetItem(c, k))

PopItemFirst(c) == Tail(c)

\* a write that leaves the item of a key that is already present alone
SetItem_keep(c, k, item) ==
    IF Contains(c, k) THEN c ELSE Append(c, item)

SetItem(c, k, item) ==
    IF Contains(c, k) THEN [c EXCEPT ![IndexOf(c, k)] = item]
    ELSE Append(c, item)

KeysOf(c) == {c[i].key : i \in 1..Len(c)}

_TimedLRUCacheItem(k, v, ta) == [key |-> k, value |-> v, time_added |-> ta]

\* ------------------------------------------------ TimedLRUCache.get
\* staleness decided for every ttl that is not None, 0 included
Expired_unless_none(item, ct, t) == t # NoNumber /\ ct - item.time_added >= t[1]

\* staleness decided with > in place of >=
Expired_strict(item, ct, t) == Truthy(t) /\ ct - item.time_added > t[1]

Expired(item, ct, t) == Truthy(t) /\ ct - item.time_added >= t[1]

\* a get that leaves the item where it is
get_promote_none(c, k) == c

\* a get that moves the item to the front: move_to_end(key, last=False)
get_promote_front(c, k) == <<GetItem(c, k)>> \o Pop(c, k)

get_promote(c, k) == MoveToEnd(c, k)

\* a get that reports a stale item absent and leaves it in the cache
get_stale_keep(c, k, ct, t) ==
    IF ~Contains(c, k) THEN [cache |-> c, ret |-> None]
    ELSE IF Expired(GetItem(c, k), ct, t)
         THEN [cache |-> c, ret |-> None]
         ELSE [cache |-> get_promote(c, k), ret |-> GetItem(c, k).value]

\* a get that first sweeps every stale item out of the cache
get_sweep(c, k, ct, t) ==
    LET swept == SelectSeq(c, LAMBDA e : e.key = k \/ ~Expired(e, ct, t))
    IN  IF ~Contains(c, k) THEN [cache |-> swept, ret |-> None]
        ELSE IF Expired(GetItem(c, k), ct, t)
             THEN [cache |-> Pop(swept, k), ret |-> None]
             ELSE [cache |-> get_promote(swept, k), ret |-> GetItem(c, k).value]

\* a get that stamps the item it returns with the time of the get
get_refresh(c, k, ct, t) ==
    IF ~Contains(c, k) THEN [cache |-> c, ret |-> None]
    ELSE IF Expired(GetItem(c, k), ct, t)
         THEN [cache |-> Pop(c, k), ret |-> None]
         ELSE [cache |-> Append(Pop(c, k), [GetItem(c, k) EXCEPT !.time_added = ct]),
               ret |-> GetItem(c, k).value]

get(c, k, ct, t) ==
    IF ~Contains(c, k) THEN [cache |-> c, ret |-> None]
    ELSE IF Expired(GetItem(c, k), ct, t)
         THEN [cache |-> Pop(c, k), ret |-> None]
         ELSE [cache |-> get_promote(c, k), ret |-> GetItem(c, k).value]

\* ------------------------------------------------ TimedLRUCache.add
\* an add that never evicts
add_evict_never(c, ms) == c

\* an add that evicts one item early
add_evict_early(c, ms) ==
    IF Truthy(ms) /\ Len(c) + 1 >= ms[1] /\ c # <<>> THEN PopItemFirst(c) ELSE c

add_evict(c, ms) ==
    IF Truthy(ms) /\ Len(c) = ms[1] THEN PopItemFirst(c) ELSE c

\* an add that does not evict when the key is already present
add_update_in_place(c, k, v, time_added, ct, ms) ==
    LET ta == IF time_added = NoNumber THEN ct ELSE time_added[1]
        kept == IF Contains(c, k) THEN c ELSE add_evict(c, ms)
    IN  MoveToEnd(SetItem(kept, k, _TimedLRUCacheItem(k, v, ta)), k)

\* an add that leaves a key that is already present as it is
add_if_absent(c, k, v, time_added, ct, ms) ==
    LET ta == IF time_added = NoNumber THEN ct ELSE time_added[1]
    IN  IF Contains(c, k) THEN c
        ELSE Append(add_evict(c, ms), _TimedLRUCacheItem(k, v, ta))

add(c, k, v, time_added, ct, ms) ==
    LET ta == IF time_added = NoNumber THEN ct ELSE time_added[1]
    IN  MoveToEnd(SetItem(add_evict(c, ms), k, _TimedLRUCacheItem(k, v, ta)), k)

\* ------------------------------------------------ TimedLRUCache.clear
\* a clear that removes nothing
clear_keep(c) == c

clear(c) == <<>>

\* ------------------------------------------------ TimedLRUCache.__len__
len(c) == Len(c)

\* ------------------------------------------------ recency bookkeeping
\* The order of the latest add / successful get of the keys that are present,
\* kept from the calls made and not from the position of the items.
Touch(r, k) == Append(SelectSeq(r, LAMBDA x : x # k), k)

Restrict(r, S) == SelectSeq(r, LAMBDA x : x \in S)

Oldest(r) == IF r = <<>> THEN <<>> ELSE <<Head(r)>>

\* ------------------------------------------------ timestamp bookkeeping
\* The timestamp each present key got from its latest add, kept from the adds
\* made and not from the items: a set of [key, at], one per key.
Stamp(a, k, at) == {x \in a : x.key # k} \cup {[key |-> k, at |-> at]}

Forget(a, S) == {x \in a : x.key \in S}

AddedAt(a, k) == (CHOOSE x \in a : x.key = k).at

\* ================================================================ engine
Init ==
    /\ kind = "engine"
    /\ cache = <<>>
    /\ max_size \in MaxSizes
    /\ ttl \in Ttls
    /\ now = 0
    /\ hits = 0
    /\ misses = 0
    /\ last = [op |-> "init"]
    /\ recency = <<>>
    /\ log = <<>>
    /\ added = {}
    /\ threads = <<>>

\* time.time() moves on between two calls
Tick ==
    /\ now < MaxTime
    /\ now' = now + 1
    /\ last' = [op |-> "tick"]
    /\ UNCHANGED <<kind, threads, added, cache, max_size, ttl, hits, misses, recency, log>>

\* last.pre is the cache the get started from
Get(k) ==
    /\ kind = "engine"
    /\ LET g == get(cache, k, now, ttl)
       IN  /\ cache' = g.cache
           /\ last' = [op |-> "get", key |-> k, ret |-> g.ret, pre |-> cache]
           /\ recency' = IF Contains(cache, k) /\ ~Expired(GetItem(cache, k), now, ttl)
                         THEN Touch(recency, k)
                         ELSE Restrict(recency, KeysOf(g.cache))
           /\ added' = Forget(added, KeysOf(g.cache))
    /\ UNCHANGED <<kind, threads, max_size, ttl, now, hits, misses, log>>

\* last.others is the cache before the add without the item of k, last.had
\* tells whether k was present, last.was_head whether it was the first item
\* and last.oldest is the key whose latest add or successful get was the oldest
Add(k, v, time_added) ==
    /\ kind = "engine"
    /\ cache' = add(cache, k, v, time_added, now, max_size)
    /\ last' = [op |-> "add", key |-> k, value |-> v,
                time_added |-> time_added, ret |-> None,
                others |-> Pop(cache, k), had |-> Contains(cache, k),
                was_head |-> (cache # <<>> /\ cache[1].key = k),
                oldest |-> Oldest(recency)]
    /\ recency' = Restrict(Touch(recency, k), KeysOf(cache'))
    /\ added' = Forget(Stamp(added, k, IF time_added = NoNumber THEN now
                                       ELSE time_added[1]),
                       KeysOf(cache'))
    /\ UNCHANGED <<kind, threads, max_size, ttl, now, hits, misses, log>>

LenOp ==
    /\ kind = "engine"
    /\ last' = [op |-> "len", ret |-> len(cache), pre |-> cache]
    /\ UNCHANGED <<kind, threads, added, cache, max_size, ttl, now, hits, misses, recency, log>>

Clear ==
    /\ kind = "engine"
    /\ cache' = clear(cache)
    /\ last' = [op |-> "clear", ret |-> None, pre |-> cache,
                cfg |-> <<max_size, ttl>>]
    /\ recency' = <<>>
    /\ added' = {}
    /\ UNCHANGED <<kind, threads, max_size, ttl, now, hits, misses, log>>

Next ==
    \/ Tick
    \/ \E k \in Keys : Get(k)
    \/ \E k \in Keys, v \in Values, ta \in OptTimes : Add(k, v, ta)
    \/ LenOp
    \/ Clear

Spec == Init /\ [][Next]_vars

\* an engine constructed with max_size = 0 and ttl = 0, which __init__ stores
\* as they are
InitZero ==
    /\ kind = "engine"
    /\ cache = <<>>
    /\ max_size = <<0>>
    /\ ttl = <<0>>
    /\ now = 0
    /\ hits = 0
    /\ misses = 0
    /\ last = [op |-> "init"]
    /\ recency = <<>>
    /\ log = <<>>
    /\ added = {}
    /\ threads = <<>>

SpecZero == InitZero /\ [][Next]_vars

\* ================================================================ adapter
\* Python objects passed as arguments: ints, strs and tuples of them
PyInt(n) == [kind |-> "int", atom |-> n, items |-> <<>>]

PyStr(x) == [kind |-> "str", atom |-> x, items |-> <<>>]

PyTuple(xs) == [kind |-> "tuple", atom |-> "", items |-> xs]

\* kwargs.items(): one (name, value) tuple per named argument, in call order
KwItems(kwargs) ==
    [i \in 1..Len(kwargs) |-> PyTuple(<<PyStr(kwargs[i].name), kwargs[i].value>>)]

\* a key that lists the named arguments x and y sorted by name
call_args_sorted(args, kwargs) ==
    IF Len(kwargs) = 2 /\ kwargs[1].name = "y" /\ kwargs[2].name = "x"
    THEN args \o KwItems(<<kwargs[2], kwargs[1]>>)
    ELSE args \o KwItems(kwargs)

\* call_args = args + tuple(kwargs.items())
call_args(args, kwargs) == args \o KwItems(kwargs)

\* the calls made: f(x=1, y=2), f(y=2, x=1) and f(("x", 1), y=2)
CallXY == [args |-> <<>>,
           kwargs |-> <<[name |-> "x", value |-> PyInt("1")],
                        [name |-> "y", value |-> PyInt("2")]>>]

CallYX == [args |-> <<>>,
           kwargs |-> <<[name |-> "y", value |-> PyInt("2")],
                        [name |-> "x", value |-> PyInt("1")]>>]

CallTY == [args |-> <<PyTuple(<<PyStr("x"), PyInt("1")>>)>>,
           kwargs |-> <<[name |-> "y", value |-> PyInt("2")]>>]

Calls == {CallXY, CallYX, CallTY}

\* the timestamps the wrapped function returns: None, or the time 0 of data
\* that was there when the clock started
FnTimes == {NoNumber, <<0>>}

\* what self._wrapped(*args, **kwargs) does: it raises, or it returns
\* (result, timestamp or None)
FnOutcomes ==
    {[raises |-> TRUE, res |-> None, ts |-> NoNumber]} \cup
    {[raises |-> FALSE, res |-> v, ts |-> t] : v \in Values, t \in FnTimes}

\* `if res is None`
IsMiss(res) == res = None

InitAdapter ==
    /\ kind = "adapter"
    /\ cache = <<>>
    /\ max_size \in MaxSizes
    /\ ttl \in Ttls
    /\ now = 0
    /\ hits = 0
    /\ misses = 0
    /\ last = [op |-> "init"]
    /\ recency = <<>>
    /\ log = <<>>
    /\ added = {}
    /\ threads = <<>>

\* _TimedLRUCacheWrapper.__call__. The wrapped function takes time: the add
\* reads the clock at t >= now. last.fn is what the wrapped function did (<<>>
\* when it was not invoked), last.ret what the call returned (None when the
\* function raised), last.present tells whether the key had an item
\* when the call started, last.stale whether that item was expired,
\* last.stored and last.stored_at are the value and timestamp of that item
\* and last.plen is the number of items then.
Call(c) ==
    /\ kind = "adapter"
    /\ hits + misses < MaxCalls
    /\ LET key == call_args(c.args, c.kwargs)
           g == get(cache, key, now, ttl)
           present == Contains(cache, key)
           stale == present /\ Expired(GetItem(cache, key), now, ttl)
           rec(outcome, out, ret) ==
               [op |-> "call", call |-> c, key |-> key, outcome |-> outcome,
                fn |-> out, ret |-> ret, present |-> present, stale |-> stale,
                plen |-> Len(cache), t_get |-> now,
                hits0 |-> hits, misses0 |-> misses,
                stored |-> IF present THEN <<GetItem(cache, key).value>> ELSE <<>>,
                stored_at |-> IF present THEN <<GetItem(cache, key).time_added>>
                              ELSE <<>>]
       IN  IF IsMiss(g.ret)
           THEN /\ misses' = misses + 1
                /\ hits' = hits
                /\ \E out \in FnOutcomes, t \in now..MaxTime :
                    /\ now' = t
                    /\ cache' = IF out.raises THEN g.cache
                                ELSE add(g.cache, key, out.res, out.ts, t, max_size)
                    /\ last' = rec(IF out.raises THEN "raised" ELSE "miss",
                                    <<out>>, out.res)
                    /\ log' = Append(log, [op |-> "call", call |-> c,
                                           invoked |-> TRUE, raised |-> out.raises])
           ELSE /\ hits' = hits + 1
                /\ misses' = misses
                /\ now' = now
                /\ cache' = g.cache
                /\ last' = rec("hit", <<>>, g.ret)
                /\ log' = Append(log, [op |-> "call", call |-> c,
                                       invoked |-> FALSE, raised |-> FALSE])
    /\ UNCHANGED <<kind, threads, added, max_size, ttl, recency>>

\* _TimedLRUCacheWrapper.cache_info
CacheInfo ==
    /\ kind = "adapter"
    /\ last' = [op |-> "cache_info",
                ret |-> [hits |-> hits, misses |-> misses,
                         current_size |-> len(cache), max_size |-> max_size]]
    /\ UNCHANGED <<kind, threads, added, cache, max_size, ttl, now, hits, misses, recency, log>>

\* _TimedLRUCacheWrapper.clear
WrapperClear ==
    /\ kind = "adapter"
    /\ cache' = clear(cache)
    /\ hits' = 0
    /\ misses' = 0
    /\ last' = [op |-> "wclear", ret |-> None, cfg |-> <<max_size, ttl>>,
                plen |-> Len(cache), hits0 |-> hits, misses0 |-> misses]
    /\ log' = <<[op |-> "clear"]>>
    /\ UNCHANGED <<kind, threads, added, max_size, ttl, now, recency>>

NextAdapter ==
    \/ Tick
    \/ \E c \in Calls : Call(c)
    \/ CacheInfo
    \/ WrapperClear

SpecAdapter == InitAdapter /\ [][NextAdapter]_vars

\* either object
InitAny == Init \/ InitAdapter

NextAny == Next \/ NextAdapter

SpecAny == InitAny /\ [][NextAny]_vars

\* ================================================================ two threads
\* Two threads call one adapter, which takes no lock. A thread can be
\* suspended between the statements of __call__: after the engine's get
\* (line 128), after the miss is counted and the wrapped function has returned
\* (lines 131-132), and after the add (line 133). The engine's get and add and
\* the increment of a counter each run without a switch of threads.
\* log lists the steps in the order they ran.
ThreadIds == {1, 2}

Idle == [pc |-> "idle"]

InitRace ==
    /\ kind = "adapter"
    /\ cache = <<>>
    /\ max_size \in MaxSizes
    /\ ttl \in Ttls
    /\ now = 0
    /\ hits = 0
    /\ misses = 0
    /\ last = [op |-> "init"]
    /\ recency = <<>>
    /\ log = <<>>
    /\ added = {}
    /\ threads = [t \in ThreadIds |-> Idle]

\* call_args = ...; res = self._timed_lru_cache.get(call_args)
CallGet(t, c) ==
    /\ threads # <<>>
    /\ threads[t].pc = "idle"
    /\ LET key == call_args(c.args, c.kwargs)
           g == get(cache, key, now, ttl)
       IN  /\ cache' = g.cache
           /\ threads' = [threads EXCEPT ![t] =
                            [pc |-> "got", call |-> c, key |-> key, res |-> g.ret]]
           /\ log' = Append(log, [thread |-> t, step |-> "get", value |-> g.ret])
           /\ last' = [op |-> "thread_get", thread |-> t]
    /\ UNCHANGED <<kind, max_size, ttl, now, hits, misses, recency, added>>

\* else: self._hits += 1; return res
CallHit(t) ==
    /\ threads # <<>>
    /\ threads[t].pc = "got"
    /\ ~IsMiss(threads[t].res)
    /\ hits' = hits + 1
    /\ threads' = [threads EXCEPT ![t].pc = "done"]
    /\ log' = Append(log, [thread |-> t, step |-> "hit", value |-> threads[t].res])
    /\ last' = [op |-> "thread_hit", thread |-> t]
    /\ UNCHANGED <<kind, cache, max_size, ttl, now, misses, recency, added>>

\* if res is None: self._misses += 1; res, add_ts = self._wrapped(...)
CallMiss(t) ==
    /\ threads # <<>>
    /\ threads[t].pc = "got"
    /\ IsMiss(threads[t].res)
    /\ misses' = misses + 1
    /\ \E out \in FnOutcomes :
        /\ threads' = [threads EXCEPT ![t] =
                         [pc |-> IF out.raises THEN "done" ELSE "computed",
                          call |-> threads[t].call, key |-> threads[t].key,
                          res |-> out.res, add_ts |-> out.ts]]
        /\ log' = Append(log, [thread |-> t,
                               step |-> IF out.raises THEN "raised" ELSE "invoked",
                               value |-> out.res])
    /\ last' = [op |-> "thread_miss", thread |-> t]
    /\ UNCHANGED <<kind, cache, max_size, ttl, now, hits, recency, added>>

\* self._timed_lru_cache.add(call_args, res, time_added=add_ts); return res
CallAdd(t) ==
    /\ threads # <<>>
    /\ threads[t].pc = "computed"
    /\ cache' = add(cache, threads[t].key, threads[t].res, threads[t].add_ts,
                    now, max_size)
    /\ threads' = [threads EXCEPT ![t].pc = "done"]
    /\ log' = Append(log, [thread |-> t, step |-> "add", value |-> threads[t].res])
    /\ last' = [op |-> "thread_add", thread |-> t]
    /\ UNCHANGED <<kind, max_size, ttl, now, hits, misses, recency, added>>

NextRace ==
    \/ Tick
    \/ \E t \in ThreadIds, c \in Calls : CallGet(t, c)
    \/ \E t \in ThreadIds : CallHit(t)
    \/ \E t \in ThreadIds : CallMiss(t)
    \/ \E t \in ThreadIds : CallAdd(t)

SpecRace == InitRace /\ [][NextRace]_vars

\* the calls in the log
CallsMade == SelectSeq(log, LAMBDA r : r.op = "call")

\* ================================================================ claims
NoStale(c) == \A i \in 1..Len(c) : ~Expired(c[i], now, ttl)

NewKeyAtCapacity ==
    /\ last.op = "add"
    /\ max_size # NoNumber
    /\ max_size[1] >= 1
    /\ ~last.had
    /\ Len(last.others) = max_size[1]

\* C1: with a positive max_size = C, len() <= C after every operation.
C1_LenWithinCapacity ==
    (max_size # NoNumber /\ max_size[1] > 0) => len(cache) <= max_size[1]

\* an add of a new key into a full cache has returned
C1_Witness ==
    /\ kind = "engine"
    /\ NewKeyAtCapacity
    /\ len(cache) = max_size[1]

\* C2: with max_size = N >= 1 and no item stale, an add of a key that is not
\* present into a cache of exactly N items removes exactly one item, the one
\* of the present key whose latest add or successful get is the oldest; all
\* other items stay, in their order, and the new item follows them.
C2_EvictsLeastRecentlyUsed ==
    (NewKeyAtCapacity /\ NoStale(last.others)) =>
        /\ last.oldest # <<>>
        /\ KeysOf(last.others) \ KeysOf(cache) = {last.oldest[1]}
        /\ len(cache) = max_size[1]
        /\ SubSeq(cache, 1, Len(cache) - 1) = Pop(last.others, last.oldest[1])
        /\ cache[Len(cache)].key = last.key

\* a new key has pushed an item out of a full cache of two
C2_Witness ==
    /\ kind = "engine"
    /\ NewKeyAtCapacity
    /\ NoStale(last.others)
    /\ max_size = <<2>>
    /\ KeysOf(last.others) \ KeysOf(cache) = {last.oldest[1]}

\* C3: with ttl = T > 0, add(k, v, t0) stores (v, t0) under k (t0 being the
\* time of the add when no timestamp is given), and a get(k) at time t that
\* finds the item (v, t0) returns v and keeps the item when t - t0 < T, and
\* returns None and removes the item when t - t0 >= T.
C3_TtlBoundary ==
    (ttl # NoNumber /\ ttl[1] > 0) =>
        /\ last.op = "add" =>
            /\ Contains(cache, last.key)
            /\ GetItem(cache, last.key).value = last.value
            /\ GetItem(cache, last.key).time_added =
                 (IF last.time_added = NoNumber THEN now ELSE last.time_added[1])
        /\ (last.op = "get" /\ Contains(last.pre, last.key)) =>
            LET item == GetItem(last.pre, last.key)
            IN  IF now - item.time_added < ttl[1]
                THEN last.ret = item.value /\ Contains(cache, last.key)
                ELSE last.ret = None /\ ~Contains(cache, last.key)

\* a get has found an item that is exactly ttl old
C3_Witness ==
    /\ kind = "engine"
    /\ last.op = "get"
    /\ ttl # NoNumber
    /\ Contains(last.pre, last.key)
    /\ GetItem(last.pre, last.key).value # None
    /\ now - GetItem(last.pre, last.key).time_added = ttl[1]
    /\ last.ret = None

\* C4: with no ttl, in the state an add(k, v) leaves, a get(k) made at once
\* or at any later time returns v, whatever max_size is; and a get that finds
\* an item returns its value.
C4_AddThenGet ==
    ttl = NoNumber =>
        /\ last.op = "add" =>
            \A t \in now..MaxTime : get(cache, last.key, t, ttl).ret = last.value
        /\ (last.op = "get" /\ Contains(last.pre, last.key)) =>
            last.ret = GetItem(last.pre, last.key).value

\* an add has overwritten the value of the only key a cache of one can hold
C4_Witness ==
    /\ kind = "engine"
    /\ ttl = NoNumber
    /\ max_size = <<1>>
    /\ last.op = "add"
    /\ last.had
    /\ last.value # None
    /\ get(cache, last.key, now, ttl).ret = last.value

\* ---------------------------------------------------------------- engine, one operation at a time
\* the number of items the add started from
PreLen == Len(last.others) + (IF last.had THEN 1 ELSE 0)

\* the add started from a cache of exactly max_size items
AtCapacity == max_size # NoNumber /\ max_size[1] >= 1 /\ PreLen = max_size[1]

\* the item the add was asked to write
NewItem ==
    _TimedLRUCacheItem(last.key, last.value,
                       IF last.time_added = NoNumber THEN now ELSE last.time_added[1])

\* C11: an add into a cache of exactly max_size items removes the first item
\* before it writes, also when the key is present: a present key that is not
\* first loses the first item and len() becomes max_size - 1; a key that is
\* first is removed and written again last, len() stays max_size and every
\* other item stays.
C11_EvictsAlsoOnUpdate ==
    (last.op = "add" /\ AtCapacity) =>
        IF last.had /\ last.was_head
        THEN /\ cache = Append(last.others, NewItem)
             /\ len(cache) = max_size[1]
        ELSE /\ cache = Append(Tail(last.others), NewItem)
             /\ ~Contains(cache, last.others[1].key)
             /\ len(cache) = (IF last.had THEN max_size[1] - 1 ELSE max_size[1])

\* an add of a present key that was not first has pushed the first item out
C11_Witness ==
    /\ kind = "engine"
    /\ last.op = "add"
    /\ AtCapacity
    /\ last.had
    /\ ~last.was_head
    /\ len(cache) = max_size[1] - 1

\* C12: an add(k, v, ts) of a key that is present leaves exactly one item for
\* k, holding v and ts, in the last position, and len() is not greater than
\* it was.
C12_UpdateKeepsOneItem ==
    (last.op = "add" /\ last.had) =>
        /\ Cardinality({i \in 1..Len(cache) : cache[i].key = last.key}) = 1
        /\ cache[Len(cache)] = NewItem
        /\ len(cache) <= PreLen

\* an add has overwritten a key that was not last, below capacity
C12_Witness ==
    /\ kind = "engine"
    /\ last.op = "add"
    /\ last.had
    /\ last.was_head
    /\ ~AtCapacity
    /\ Len(last.others) >= 1
    /\ len(cache) = PreLen

\* the get found the key with an item that is stale
FoundStale ==
    /\ last.op = "get"
    /\ Contains(last.pre, last.key)
    /\ ttl # NoNumber
    /\ ttl[1] # 0
    /\ now - GetItem(last.pre, last.key).time_added >= ttl[1]

\* the get found the key with an item that is not stale
FoundFresh ==
    /\ last.op = "get"
    /\ Contains(last.pre, last.key)
    /\ ~FoundStale

\* C13: a get that finds its key stale reports None and removes exactly that
\* item: len() drops by one and all other items keep their value, timestamp
\* and order.
C13_StaleGetRemovesOnlyKey ==
    FoundStale =>
        /\ last.ret = None
        /\ len(cache) = Len(last.pre) - 1
        /\ ~Contains(cache, last.key)
        /\ cache = SelectSeq(last.pre, LAMBDA e : e.key # last.key)

\* a stale item has been removed from between two others
C13_Witness ==
    /\ kind = "engine"
    /\ FoundStale
    /\ Len(last.pre) = 3
    /\ last.pre[2].key = last.key
    /\ len(cache) = 2

\* C14: a get that finds its key fresh returns the value and moves the item
\* last, changing neither len() nor any value or timestamp nor the order of
\* the other items; a get of a key that is not present changes nothing.
C14_FreshGetOnlyPromotes ==
    /\ FoundFresh =>
        /\ last.ret = GetItem(last.pre, last.key).value
        /\ len(cache) = Len(last.pre)
        /\ cache[Len(cache)] = GetItem(last.pre, last.key)
        /\ SubSeq(cache, 1, Len(cache) - 1) =
             SelectSeq(last.pre, LAMBDA e : e.key # last.key)
    /\ (last.op = "get" /\ ~Contains(last.pre, last.key)) =>
        /\ last.ret = None
        /\ cache = last.pre

\* a get has moved the first of several items last
C14_Witness ==
    /\ kind = "engine"
    /\ FoundFresh
    /\ Len(last.pre) >= 2
    /\ last.pre[1].key = last.key
    /\ cache[Len(cache)].key = last.key

\* C15: an add made when max_size is None, or when len() is not max_size,
\* removes no item: the others keep value, timestamp and order, and len()
\* grows by one for a new key and stays for a present one.
C15_AddBelowCapacityKeepsAll ==
    (last.op = "add" /\ (max_size = NoNumber \/ PreLen # max_size[1])) =>
        /\ cache = Append(last.others, NewItem)
        /\ len(cache) = PreLen + (IF last.had THEN 0 ELSE 1)

\* a new key has joined one item in a cache that can hold two
C15_Witness ==
    /\ kind = "engine"
    /\ last.op = "add"
    /\ max_size = <<2>>
    /\ ~last.had
    /\ PreLen = 1
    /\ len(cache) = 2

IsStale(e) == ttl # NoNumber /\ ttl[1] # 0 /\ now - e.time_added >= ttl[1]

\* C16: items leave on account of their age only through a get of their own
\* key. len removes nothing and counts stale items; a get leaves the items of
\* all other keys, stale or not; an add removes at most the first item, and
\* that only because the cache is at capacity, whichever items are stale.
C16_LazyExpiry ==
    /\ last.op = "len" =>
        /\ cache = last.pre
        /\ last.ret = Len(last.pre)
    /\ last.op = "get" =>
        /\ SelectSeq(cache, LAMBDA e : e.key # last.key) =
             SelectSeq(last.pre, LAMBDA e : e.key # last.key)
        /\ (Contains(last.pre, last.key) /\ ~Contains(cache, last.key)) =>
             FoundStale
    /\ last.op = "add" =>
        /\ SubSeq(cache, 1, Len(cache) - 1) =
             (IF AtCapacity /\ ~(last.had /\ last.was_head)
              THEN Tail(last.others) ELSE last.others)

\* capacity eviction has removed a fresh item and left a stale one
C16_Witness ==
    /\ kind = "engine"
    /\ last.op = "add"
    /\ AtCapacity
    /\ ~last.had
    /\ ~IsStale(last.others[1])
    /\ \E i \in 1..Len(cache) : IsStale(cache[i])

\* C17: a miss stores the function's result under the timestamp the function
\* returned, or under the time of the add when it returned none; with ttl = T
\* a call that finds an item for its key, stamped ts, at time t is a hit if
\* and only if t - ts < T, and is computed again otherwise.
C17_TimestampDecidesHit ==
    /\ (last.op = "call" /\ last.outcome = "miss") =>
        /\ Contains(cache, last.key)
        /\ GetItem(cache, last.key).time_added =
             (IF last.fn[1].ts = NoNumber THEN now ELSE last.fn[1].ts[1])
    /\ (last.op = "call" /\ last.present /\ ttl # NoNumber /\ ttl[1] > 0) =>
        /\ (last.outcome = "hit") <=> (last.t_get - last.stored_at[1] < ttl[1])
        /\ (last.t_get - last.stored_at[1] >= ttl[1]) => last.fn # <<>>

\* C18: every item carries the timestamp its latest add gave it, however many
\* gets returned it since; so a get that finds the item at an age of ttl or
\* more reports None, and a get that returns it leaves its timestamp alone.
C18_GetNeverRefreshes ==
    /\ kind = "engine" =>
        \A i \in 1..Len(cache) :
            cache[i].time_added = AddedAt(added, cache[i].key)
    /\ FoundStale => (last.ret = None /\ ~Contains(cache, last.key))
    /\ FoundFresh =>
        GetItem(cache, last.key).time_added = GetItem(last.pre, last.key).time_added

\* with a ttl, a get has returned an item whose timestamp is not the time of
\* the get
C18_Witness ==
    /\ kind = "engine"
    /\ FoundFresh
    /\ ttl # NoNumber
    /\ GetItem(cache, last.key).time_added # now

\* the steps of the log that are of one kind
Steps(kind_of_step) == {i \in 1..Len(log) : log[i].step = kind_of_step}

\* both threads have returned from a call with the same arguments, neither
\* function raised, and both gets ran before either add
RacedSameCall ==
    /\ threads # <<>>
    /\ \A t \in ThreadIds : threads[t].pc = "done"
    /\ threads[1].call = threads[2].call
    /\ Steps("raised") = {}
    /\ \A i \in Steps("get"), j \in Steps("add") : i < j

\* C19: no single flight. When two calls with the same arguments both run
\* their get before either runs its add, both count a miss, both invoke the
\* wrapped function and both add under the one key; the cache is left with a
\* single item for the key, holding the value of the add that ran last.
C19_NoSingleFlight ==
    RacedSameCall =>
        /\ misses = 2
        /\ hits = 0
        /\ Cardinality(Steps("invoked")) = 2
        /\ Cardinality(Steps("add")) = 2
        /\ Cardinality({i \in 1..Len(cache) : cache[i].key = threads[1].key}) = 1
        /\ GetItem(cache, threads[1].key).value = log[Len(log)].value
        /\ log[Len(log)].step = "add"

\* two raced calls have computed different results and the later add's is kept
C19_Witness ==
    /\ RacedSameCall
    /\ \E i \in Steps("add"), j \in Steps("add") :
        /\ i < j
        /\ log[i].value # log[j].value
        /\ GetItem(cache, threads[1].key).value = log[j].value

\* C20: an engine constructed with max_size = 0 and ttl = 0 works, and both
\* behave as None: no add evicts (a new key makes len() one greater, all items
\* stay), and no get finds its key stale (a present key is returned whatever
\* time has passed).
C20_ZeroIsAbsent ==
    /\ (max_size = <<0>> /\ last.op = "add") =>
        /\ cache = Append(last.others, NewItem)
        /\ ~last.had => len(cache) = PreLen + 1
    /\ (ttl = <<0>> /\ last.op = "get" /\ Contains(last.pre, last.key)) =>
        /\ last.ret = GetItem(last.pre, last.key).value
        /\ Contains(cache, last.key)
        /\ len(cache) = Len(last.pre)

\* with max_size = 0 and ttl = 0, a get has returned an item older than the
\* clock's start from a cache of three
C20_Witness ==
    /\ max_size = <<0>>
    /\ ttl = <<0>>
    /\ last.op = "get"
    /\ Contains(last.pre, last.key)
    /\ GetItem(last.pre, last.key).value # None
    /\ now - GetItem(last.pre, last.key).time_added > 0
    /\ last.ret = GetItem(last.pre, last.key).value
    /\ len(cache) = 3

\* ---------------------------------------------------------------- adapter
Invocations == Len(SelectSeq(CallsMade, LAMBDA r : r.invoked))

\* the last two operations were two calls that returned normally, made since
\* construction or the last clear with nothing before them
TwoCalls ==
    /\ last.op = "call"
    /\ Len(CallsMade) = 2
    /\ ~CallsMade[1].raised
    /\ ~CallsMade[2].raised

\* C5: two calls with identical arguments, the wrapped function returning
\* normally, no clear and no expiry between them: the function is invoked
\* exactly once, the second call is a hit, hits = 1 and misses = 1.
C5_MemoizedOnce ==
    (TwoCalls /\ CallsMade[1].call = CallsMade[2].call /\ ~last.stale) =>
        /\ Invocations = 1
        /\ last.outcome = "hit"
        /\ hits = 1
        /\ misses = 1

\* C6: a call whose wrapped function raises counts one miss and no hit, and
\* leaves the engine without an item for the call's key.
C6_FailedCallStoresNothing ==
    (last.op = "call" /\ last.outcome = "raised") =>
        /\ misses = last.misses0 + 1
        /\ hits = last.hits0
        /\ ~Contains(cache, last.key)

\* C7: a call that returns normally is a hit when the engine's get yields a
\* stored value (the function is not invoked, the number of items is
\* unchanged) and a miss otherwise (the function is invoked once and its
\* result stored); hits + misses is the number of calls since construction or
\* the last clear.
C7_HitOrMiss ==
    /\ hits + misses = Len(CallsMade)
    /\ (last.op = "call" /\ last.outcome # "raised") =>
        IF last.present /\ ~last.stale
        THEN /\ last.outcome = "hit"
             /\ hits = last.hits0 + 1
             /\ misses = last.misses0
             /\ last.fn = <<>>
             /\ last.ret = last.stored[1]
             /\ len(cache) = last.plen
        ELSE /\ last.outcome = "miss"
             /\ misses = last.misses0 + 1
             /\ hits = last.hits0
             /\ last.fn # <<>>
             /\ Contains(cache, last.key)
             /\ GetItem(cache, last.key).value = last.ret

\* C8: the engine's clear leaves len() = 0 and max_size and ttl as they were,
\* which is the state of a newly constructed engine of that configuration; the
\* adapter's clear also leaves hits = 0 and misses = 0, and the call that
\* follows it is a miss.
C8_Clear ==
    /\ last.op = "clear" =>
        /\ len(cache) = 0
        /\ <<max_size, ttl>> = last.cfg
    /\ last.op = "wclear" =>
        /\ len(cache) = 0
        /\ <<max_size, ttl>> = last.cfg
        /\ hits = 0
        /\ misses = 0
    /\ (last.op = "call" /\ Len(log) = 2 /\ log[1].op = "clear") =>
        /\ ~last.present
        /\ last.outcome # "hit"
        /\ hits = 0
        /\ misses = 1

\* the adapter's clear has emptied a cache that held items and counters that
\* had counted a hit and a miss
C8_Witness ==
    /\ last.op = "wclear"
    /\ last.plen > 0
    /\ last.hits0 > 0
    /\ last.misses0 > 0
    /\ len(cache) = 0

\* C9: a call is served from a stored item only if a call with the same
\* positional arguments and the same named arguments in the same order was
\* made before it; calls that differ derive different keys.
C9_DistinctCallsDistinctKeys ==
    (last.op = "call" /\ last.outcome = "hit") =>
        \E i \in 1..(Len(CallsMade) - 1) : CallsMade[i].call = last.call

\* C10: f(x=1, y=2) and f(y=2, x=1), made one after the other in either order
\* on an adapter that has made no call since construction or clear, are two
\* misses, and leave two items when max_size allows two; their keys differ.
C10_NamedOrderSensitive ==
    /\ call_args(CallXY.args, CallXY.kwargs) # call_args(CallYX.args, CallYX.kwargs)
    /\ (TwoCalls /\ {CallsMade[1].call, CallsMade[2].call} = {CallXY, CallYX}) =>
        /\ last.outcome = "miss"
        /\ hits = 0
        /\ misses = 2
        /\ (max_size = NoNumber \/ max_size[1] >= 2) =>
            /\ len(cache) = 2
            /\ Contains(cache, call_args(CallXY.args, CallXY.kwargs))
            /\ Contains(cache, call_args(CallYX.args, CallYX.kwargs))

\* f(x=1, y=2) then f(y=2, x=1) have left two items
C10_Witness ==
    /\ TwoCalls
    /\ CallsMade[1].call = CallXY
    /\ CallsMade[2].call = CallYX
    /\ len(cache) = 2
    /\ misses = 2

====
